---- MODULE Spec2Model ----
(***************************************************************************)
(* h5tools/image_packer.py: runs of `main` against one output container.   *)
(* A run parses the command line, maps the sources to image files, and     *)
(* writes one array per dataset into the root group of the HDF5 file.  The *)
(* container persists from one run to the next; everything else is local   *)
(* to a run.                                                               *)
(***************************************************************************)
EXTENDS Integers, Sequences, FiniteSets, TLC

\* ------------------------------------------------------------------ bounds
MaxRuns == 2      \* invocations of the tool against the same output file
MaxSources == 2   \* positional `source` arguments of one invocation
MaxFiles == 2     \* children of one source directory

\* ------------------------------------------------------------ input sets
Digits == {"0", "1", "2"}
DigitVal == [c \in Digits |-> CASE c = "0" -> 0 [] c = "1" -> 1 [] c = "2" -> 2]

\* --shape values tried on the command line, as character sequences.
ShapeTexts ==
    { <<"2", "x", "1">>, <<"2">>, <<"1", "x", "2", "x", "1">>, <<"0", "x", "1">>,
      <<"a", "x", "1">>, <<"x", "1">>, <<>> }

\* Path.suffix of the paths in the file system.
JPG == <<".", "J", "P", "G">>
Suffixes == { JPG, <<".", "t", "x", "t">> }
NoSuffix == <<>>

\* PIL sizes (width, height) of the decodable images.
Sizes == { <<1, 1>>, <<2, 1>> }

\* A file: its suffix, whether PIL can open and decode it (Image.open and
\* convert both succeed, or Image.open raises OSError), and its size.  The
\* files that hold an image are the .JPG ones.
Files ==
    [suffix : {JPG}, ok : {TRUE}, size : Sizes]
        \cup [suffix : Suffixes, ok : {FALSE}, size : {<<0, 0>>}]

Stems == {"a", "b"}

RECURSIVE SeqsUpTo(_, _)
SeqsUpTo(S, n) ==
    IF n = 0 THEN { <<>> }
    ELSE LET shorter == SeqsUpTo(S, n - 1)
         IN shorter \cup { Append(s, x) : s \in shorter, x \in S }

\* A source path: a directory with its children, a single file, or a path
\* that does not exist.  `name` is Path.name, the final path component.
Sources ==
    [kind : {"dir"}, name : Stems \X {NoSuffix}, children : SeqsUpTo(Files, MaxFiles),
     self : {[suffix |-> NoSuffix, ok |-> FALSE, size |-> <<0, 0>>]}]
        \cup { [kind |-> "file", name |-> <<st, f.suffix>>, children |-> <<>>, self |-> f] :
                 st \in Stems, f \in Files }
        \cup [kind : {"missing"}, name : Stems \X {NoSuffix}, children : {<<>>},
              self : {[suffix |-> NoSuffix, ok |-> FALSE, size |-> <<0, 0>>]}]

NoSource ==
    [kind |-> "none", name |-> <<"", NoSuffix>>, children |-> <<>>,
     self |-> [suffix |-> NoSuffix, ok |-> FALSE, size |-> <<0, 0>>]]

\* -------------------------------------------------------------- _shape_
RECURSIVE split(_, _)
\* str.split(sep) on a character sequence
split(s, sep) ==
    IF \E j \in 1..Len(s) : s[j] = sep
    THEN LET j == CHOOSE j \in 1..Len(s) : s[j] = sep /\ \A m \in 1..(j - 1) : s[m] # sep
         IN <<SubSeq(s, 1, j - 1)>> \o split(SubSeq(s, j + 1, Len(s)), sep)
    ELSE <<s>>

\* int(x) raises ValueError unless x is a decimal literal
IsIntLiteral(tok) == Len(tok) > 0 /\ \A j \in 1..Len(tok) : tok[j] \in Digits

RECURSIVE IntOf(_)
IntOf(tok) ==
    IF Len(tok) = 0 THEN 0
    ELSE 10 * IntOf(SubSeq(tok, 1, Len(tok) - 1)) + DigitVal[tok[Len(tok)]]

\* tuple(int(x) for x in shape.split('x')); ok = FALSE when int() raises
shape_(text) ==
    LET parts == split(text, "x")
    IN IF \A j \in 1..Len(parts) : IsIntLiteral(parts[j])
       THEN [ok |-> TRUE, dims |-> [j \in 1..Len(parts) |-> IntOf(parts[j])]]
       ELSE [ok |-> FALSE, dims |-> <<>>]

\* ---------------------------------------------------------- _isImageFile_
lower(c) ==
    CASE c = "J" -> "j" [] c = "P" -> "p" [] c = "G" -> "g" [] OTHER -> c

ImageExtensions ==
    { <<".", "j", "p", "e", "g">>, <<".", "j", "p", "g">>,
      <<".", "p", "n", "g">>, <<".", "b", "m", "p">> }

isImageFile(file) ==
    [j \in 1..Len(file.suffix) |-> lower(file.suffix[j])] \in ImageExtensions

\* ------------------------------------------------------------------ state
VARIABLES
    run,        \* number of the current invocation
    pc,         \* position of the current invocation in main
    outcome,    \* how the current invocation ended, or "running"
    shape,      \* options.shape: [given, dims]
    nsrc,       \* sources consumed so far by the mapper's loop
    src,        \* the source the mapper's loop looked at last
    dses,       \* the mapper's dict, in insertion order: <<[name, files], ...>>
    firstFiles, \* per dataset name, the files of the first source that had it
    container,  \* the output file: [exists, group, arrays]
    container0, \* the output file as it was when the invocation started
    k,          \* index in dses of the dataset being written
    i,          \* index of the file being written
    wh,         \* _saveToHDF5_'s locals (width, height); <<>> while unbound
    prev        \* the invocation before this one: [outcome, names], names its dses.keys()

vars ==
    <<run, pc, outcome, shape, nsrc, src, dses, firstFiles, container, container0, k, i, wh,
      prev>>

NoShape == [given |-> FALSE, dims |-> <<>>]
NoContainer == [exists |-> FALSE, group |-> FALSE, arrays |-> <<>>]
Unbound == <<>>
NoPrev == [outcome |-> "none", names |-> {}]
Fill == <<>>

Init ==
    /\ run = 1
    /\ pc = "args"
    /\ outcome = "running"
    /\ shape = NoShape
    /\ nsrc = 0
    /\ src = NoSource
    /\ dses = <<>>
    /\ firstFiles = <<>>
    /\ container = NoContainer
    /\ container0 = NoContainer
    /\ k = 0
    /\ i = 0
    /\ wh = Unbound
    /\ prev = NoPrev

\* ------------------------------------------------------- dict operations
HasKey(d, name) == \E j \in 1..Len(d) : d[j].name = name

Get(d, name) == d[CHOOSE j \in 1..Len(d) : d[j].name = name].files

\* d[name] = files: a new key goes last, an old key keeps its place
Put(d, name, files) ==
    IF HasKey(d, name)
    THEN [j \in 1..Len(d) |->
            IF d[j].name = name THEN [name |-> name, files |-> files] ELSE d[j]]
    ELSE Append(d, [name |-> name, files |-> files])

\* d.keys()
Names(d) == { d[j].name : j \in 1..Len(d) }

\* ------------------------------------------------------------- outcomes
Uncaught ==
    { "uncaught NotADirectoryError", "uncaught FileNotFoundError",
      "uncaught UnboundLocalError", "uncaught TypeError" }

Outcomes ==
    { "running", "usage error", "exit 0 no dataset", "exit 1 shape",
      "exit 1 output file", "exit 0 done" } \cup Uncaught

\* ------------------------------------------------------------ _getOptions_
\* parser.parse_args(): a --shape value for which _shape_ raises ValueError, or
\* a missing required argument, ends the process with a usage error.
getOptions ==
    /\ pc = "args"
    /\ \E required \in BOOLEAN, given \in BOOLEAN, text \in ShapeTexts :
         LET parsed == IF given THEN shape_(text) ELSE [ok |-> TRUE, dims |-> <<>>]
         IN IF required /\ parsed.ok
            THEN /\ shape' = [given |-> given, dims |-> parsed.dims]
                 /\ pc' = "map"
                 /\ outcome' = outcome
            ELSE /\ shape' = shape
                 /\ pc' = "exit"
                 /\ outcome' = "usage error"
    /\ UNCHANGED <<run, nsrc, src, dses, firstFiles, container, container0, k, i, wh, prev>>

\* ------------------------------------------------------ _mapDatasetsToFiles_
\* files = [file for file in src.iterdir() if src.is_dir()]
\* if src.is_file(): files.append(src)
\* Path.iterdir() raises NotADirectoryError on a file and FileNotFoundError on
\* a missing path before the comprehension's condition is looked at.
listFiles(s) ==
    CASE s.kind = "dir" -> [raised |-> "", files |-> s.children]
      [] s.kind = "file" -> [raised |-> "uncaught NotADirectoryError", files |-> <<>>]
      [] OTHER -> [raised |-> "uncaught FileNotFoundError", files |-> <<>>]

\* files = [file for file in files if _isImageFile_(file)]
imageFiles(files) == SelectSeq(files, isImageFile)

\* One iteration of the loop over the sources.
mapSource ==
    /\ pc = "map"
    /\ nsrc < MaxSources
    /\ \E s \in Sources :
         LET listed == listFiles(s)
             files == imageFiles(listed.files)
         IN /\ src' = s
            /\ nsrc' = nsrc + 1
            /\ IF listed.raised # ""
               THEN /\ outcome' = listed.raised
                    /\ pc' = "exit"
                    /\ UNCHANGED <<dses, firstFiles>>
               ELSE /\ UNCHANGED <<outcome, pc>>
                    /\ IF Len(files) = 0
                       THEN UNCHANGED <<dses, firstFiles>>
                       ELSE /\ dses' = Put(dses, s.name, files)
                            /\ firstFiles' =
                                 IF HasKey(firstFiles, s.name) THEN firstFiles
                                 ELSE Put(firstFiles, s.name, files)
    /\ UNCHANGED <<run, shape, container, container0, k, i, wh, prev>>

\* The end of the loop: exit(0) when the dict is empty, else return it.
mapEnd ==
    /\ pc = "map"
    /\ nsrc >= 1
    /\ src' = NoSource
    /\ IF Len(dses) = 0
       THEN /\ outcome' = "exit 0 no dataset"
            /\ pc' = "exit"
       ELSE /\ outcome' = outcome
            /\ pc' = "open"
    /\ UNCHANGED <<run, shape, nsrc, dses, firstFiles, container, container0, k, i, wh, prev>>

\* ------------------------------------------------------------ _saveToHDF5_
\* h5py.File(filename, mode='a'): opens the file, creating it when absent; an
\* OSError is logged and ends the process with exit(1).
openOutput ==
    /\ pc = "open"
    /\ \E canOpen \in BOOLEAN :
         IF canOpen
         THEN /\ container' = [container EXCEPT !.exists = TRUE]
              /\ pc' = "dataset"
              /\ k' = 1
              /\ outcome' = outcome
         ELSE /\ outcome' = "exit 1 output file"
              /\ pc' = "exit"
              /\ UNCHANGED <<container, k>>
    /\ UNCHANGED <<run, shape, nsrc, src, dses, firstFiles, container0, i, wh, prev>>

\* _getShape_(dataset_files, key): the size of the dataset's first file;
\* ok = FALSE when Image.open raises OSError, which ends the process, exit(1).
getShape(d, key) ==
    LET file == Get(d, key)[1]
    IN [ok |-> file.ok, size |-> file.size]

\* d_shape, when the user gave a shape: (n_elements, *shape)
fixedShape(n, dims) == <<n>> \o dims

\* d_shape, when the shape comes from _getShape_: (n_elements, height, width)
inferredShape(n, size) == <<n, size[2], size[1]>>

\* group.create_dataset(name, shape, dtype='uint8'): every slice at the fill value
newArray(d_shape) == [shape |-> d_shape, data |-> [j \in 1..d_shape[1] |-> Fill]]

\* The check for the name left out: every dataset is created.
nameExists_unchecked(name, arrays) == FALSE

\* name in group.keys()
nameExists(name, arrays) == name \in DOMAIN arrays

\* The head of the loop over the datasets, up to the creation of the array.
beginDataset ==
    /\ pc = "dataset"
    /\ k <= Len(dses)
    /\ LET name == dses[k].name
           n_elements == Len(dses[k].files)
           got == getShape(dses, name)
       IN IF ~shape.given /\ ~got.ok
          THEN /\ outcome' = "exit 1 shape"
               /\ pc' = "exit"
               /\ UNCHANGED <<container, k, i, wh>>
          ELSE LET d_shape == IF shape.given THEN fixedShape(n_elements, shape.dims)
                              ELSE inferredShape(n_elements, got.size)
               IN /\ wh' = IF shape.given THEN wh ELSE got.size
                  /\ outcome' = outcome
                  /\ IF nameExists(name, container.arrays)
                     THEN /\ container' = [container EXCEPT !.group = TRUE]
                          /\ k' = k + 1
                          /\ UNCHANGED <<pc, i>>
                     ELSE /\ container' =
                               [container EXCEPT !.group = TRUE,
                                   !.arrays = (name :> newArray(d_shape)) @@ @]
                          /\ pc' = "file"
                          /\ i' = 1
                          /\ k' = k
    /\ UNCHANGED <<run, shape, nsrc, src, dses, firstFiles, container0, prev>>

\* np.array(data) after convert and resize: PIL size (w, h) gives shape (h, w)
pixels(size) == <<size[2], size[1]>>

\* One iteration of the loop over the files of the dataset being written.
writeFile ==
    /\ pc = "file"
    /\ LET name == dses[k].name
           files == dses[k].files
           file == files[i]
           array == container.arrays[name]
           advance == /\ IF i < Len(files)
                         THEN /\ i' = i + 1
                              /\ UNCHANGED <<pc, k>>
                         ELSE /\ pc' = "dataset"
                              /\ k' = k + 1
                              /\ i' = 0
                      /\ outcome' = outcome
           raise(e) == /\ outcome' = e
                       /\ pc' = "exit"
                       /\ UNCHANGED <<container, k, i>>
       IN IF ~file.ok
          THEN \* except IOError: logged, the loop goes on
               advance /\ UNCHANGED container
          ELSE IF wh = Unbound
          THEN \* data.size != (width, height) reads locals never assigned
               raise("uncaught UnboundLocalError")
          ELSE IF Tail(array.shape) # pixels(wh)
          THEN \* dataset[i] = ...: the shapes cannot be broadcast
               raise("uncaught TypeError")
          ELSE /\ container' = [container EXCEPT !.arrays[name].data[i] = pixels(wh)]
               /\ advance
    /\ UNCHANGED <<run, shape, nsrc, src, dses, firstFiles, container0, wh, prev>>

\* The loop over the datasets is over: the file is closed, main returns.
saveDone ==
    /\ pc = "dataset"
    /\ k > Len(dses)
    /\ outcome' = "exit 0 done"
    /\ pc' = "exit"
    /\ UNCHANGED <<run, shape, nsrc, src, dses, firstFiles, container, container0, k, i, wh,
                   prev>>

\* -------------------------------------------------------------------- main
\* The tool is started again on the same output file.
main ==
    /\ pc = "exit"
    /\ run < MaxRuns
    /\ run' = run + 1
    /\ pc' = "args"
    /\ outcome' = "running"
    /\ shape' = NoShape
    /\ nsrc' = 0
    /\ src' = NoSource
    /\ dses' = <<>>
    /\ firstFiles' = <<>>
    /\ container0' = container
    /\ k' = 0
    /\ i' = 0
    /\ wh' = Unbound
    /\ prev' = [outcome |-> outcome, names |-> Names(dses)]
    /\ UNCHANGED container

\* The outcomes of an invocation that got as far as opening the output file.
WriterOutcomes ==
    { "exit 0 done", "exit 1 shape", "uncaught UnboundLocalError", "uncaught TypeError" }

Next ==
    \/ getOptions
    \/ mapSource
    \/ mapEnd
    \/ openOutput
    \/ beginDataset
    \/ writeFile
    \/ saveDone
    \/ main

Spec == Init /\ [][Next]_vars

TypeOK ==
    /\ run \in 1..MaxRuns
    /\ pc \in {"args", "map", "open", "dataset", "file", "exit"}
    /\ outcome \in Outcomes
    /\ (pc = "exit") <=> (outcome # "running")

\* ------------------------------------------------------------ properties
\* The arrays this invocation has created.
Created == DOMAIN container.arrays \ DOMAIN container0.arrays

\* A shape of the form WxH: two positive integers.
IsWxH(dims) == Len(dims) = 2 /\ dims[1] > 0 /\ dims[2] > 0

\* The image members of a source: the image children of a directory, a single
\* image file itself.
Members(s) ==
    CASE s.kind = "dir" -> imageFiles(s.children)
      [] s.kind = "file" /\ isImageFile(s.self) -> <<s.self>>
      [] OTHER -> <<>>

\* Every array present when the invocation started is still there, unchanged.
ExistingArraysKept ==
    \A name \in DOMAIN container0.arrays :
        /\ name \in DOMAIN container.arrays
        /\ container.arrays[name] = container0.arrays[name]

\* C1: every array created by an invocation has shape (count, height, width):
\* count is the number of files of its dataset, and (width, height) is the
\* --shape WxH when one is given, else the size of the dataset's first image.
C1_CreatedShape ==
    \A name \in Created :
        LET files == Get(dses, name)
            array == container.arrays[name]
        IN /\ (shape.given /\ IsWxH(shape.dims)) =>
                 array.shape = <<Len(files), shape.dims[2], shape.dims[1]>>
           /\ ~shape.given =>
                 array.shape = <<Len(files), files[1].size[2], files[1].size[1]>>

\* C2 as stated: an array present before an invocation is present with the
\* same shape and contents after it; and when the invocation before got to
\* the output file, an invocation with the same dataset names that ends
\* normally leaves the arrays of the container as it found them.
C2_SecondRunLeavesContainer ==
    /\ ExistingArraysKept
    /\ ( /\ prev.outcome \in WriterOutcomes
         /\ outcome = "exit 0 done"
         /\ shape.given => IsWxH(shape.dims)
         /\ Names(dses) = prev.names ) =>
          container.arrays = container0.arrays

\* C2 as amended: an array present before an invocation is present with the
\* same shape and contents at every point of it and after it; the arrays an
\* invocation adds are arrays of datasets it has mapped; and an invocation
\* whose dataset names are all in the root group already leaves the container
\* as it found it.
C2_ExistingArraysNeverAltered ==
    /\ ExistingArraysKept
    /\ Created \subseteq Names(dses)
    /\ Names(dses) \subseteq DOMAIN container0.arrays => container = container0

\* A second invocation has ended normally: it skipped a dataset whose array,
\* with a slice written by the first invocation, was there, and created another.
C2_Witness ==
    /\ run = 2
    /\ outcome = "exit 0 done"
    /\ Created # {}
    /\ \E name \in DOMAIN container0.arrays \cap Names(dses) :
          \E j \in 1..Len(container0.arrays[name].data) :
              container0.arrays[name].data[j] # Fill

\* C3: with --shape WxH the writer raises nothing, and when the invocation
\* has ended every decodable file i of every created dataset has its slice i
\* written with an image of height H and width W.
C3_FixedShapeWritesSlices ==
    (shape.given /\ IsWxH(shape.dims)) =>
        /\ outcome \notin {"uncaught UnboundLocalError", "uncaught TypeError"}
        /\ (pc = "exit" /\ outcome \in WriterOutcomes) =>
              /\ outcome = "exit 0 done"
              /\ \A name \in Created :
                    \A j \in 1..Len(Get(dses, name)) :
                        Get(dses, name)[j].ok =>
                            container.arrays[name].data[j]
                                = <<shape.dims[2], shape.dims[1]>>

\* C4, for a shape given as WxH: when the invocation has ended, every dataset
\* that has a file that cannot be decoded and that was not in the container
\* before has its array, with the slices of exactly the undecodable files at
\* the fill value, and the invocation has ended normally.
C4_DecodeFailureNotFatal ==
    (pc = "exit" /\ outcome \in WriterOutcomes /\ shape.given /\ IsWxH(shape.dims)) =>
        \A d \in 1..Len(dses) :
            LET name == dses[d].name
                files == dses[d].files
            IN (name \notin DOMAIN container0.arrays /\ \E j \in 1..Len(files) : ~files[j].ok) =>
                  /\ outcome = "exit 0 done"
                  /\ name \in DOMAIN container.arrays
                  /\ \A j \in 1..Len(files) :
                        (container.arrays[name].data[j] = Fill) <=> ~files[j].ok

\* C5: after the mapper has looked at a source that has image members (the
\* image children of a directory, or the source itself when it is an image
\* file), the mapping holds exactly these members under the source's name and
\* the mapper goes on.
C5_SourceMapsToMembers ==
    (src.kind \in {"dir", "file"} /\ Len(Members(src)) > 0) =>
        /\ outcome = "running"
        /\ HasKey(dses, src.name)
        /\ Get(dses, src.name) = Members(src)

\* C6: an array created under a name that several sources of the invocation
\* share has the file count of the first of these sources.
C6_FirstSourceWins ==
    \A name \in Created :
        /\ HasKey(firstFiles, name)
        /\ container.arrays[name].shape[1] = Len(Get(firstFiles, name))

\* Every file of every dataset but the d-th can be decoded.
OthersDecodable(d) ==
    \A m \in 1..Len(dses) :
        m # d => \A j \in 1..Len(dses[m].files) : dses[m].files[j].ok

\* C7: when the invocation has ended and dataset d was already in the root
\* group, every later dataset that was not has been created and written,
\* whether or not the files of dataset d can be read.
C7_CollisionSkipsAndContinues ==
    (pc = "exit" /\ outcome \in WriterOutcomes /\ (shape.given => IsWxH(shape.dims))) =>
        \A d \in 1..Len(dses) : \A m \in 1..Len(dses) :
            ( /\ d < m
              /\ dses[d].name \in DOMAIN container0.arrays
              /\ dses[m].name \notin DOMAIN container0.arrays
              /\ OthersDecodable(d) ) =>
                /\ dses[m].name \in DOMAIN container.arrays
                /\ \A j \in 1..Len(dses[m].files) :
                      container.arrays[dses[m].name].data[j] # Fill

\* C8: an invocation ends in one of five ways: normal completion, the exit 0
\* for no dataset, the exit 1 of shape inference, the exit 1 of the output
\* file, or a usage error.
C8_OnlyDocumentedOutcomes ==
    outcome \in { "running", "exit 0 done", "exit 0 no dataset", "exit 1 shape",
                  "exit 1 output file", "usage error" }

\* C9: a source without image members is left out and the mapper goes on; and
\* when no source has image members the invocation ends with exit 0 and the
\* container as it was.
C9_EmptySourcesExitZero ==
    /\ (src.kind \in {"dir", "file"} /\ Len(Members(src)) = 0) =>
          /\ outcome = "running"
          /\ dses = <<>> \/ \A j \in 1..Len(dses) : Len(dses[j].files) > 0
    /\ ( /\ pc = "exit"
         /\ nsrc >= 1
         /\ Len(dses) = 0
         /\ src.kind # "missing"
         /\ Len(Members(src)) = 0 ) =>
          /\ outcome = "exit 0 no dataset"
          /\ container = container0

\* C10: a --shape value that is not two positive integers around an 'x' is a
\* usage error, which leaves the container alone: the shape option that the
\* mapper and the writer see, when given, is of the form WxH.
C10_OnlyWxHPassesParsing ==
    /\ shape.given => IsWxH(shape.dims)
    /\ outcome = "usage error" => container = container0

====
